---- MODULE Spec2Model ----
(***************************************************************************)
(* A model of mmg (multilingual markdown generator): the three conversion  *)
(* entry points of mmg/api.py and the configuration extractors of          *)
(* mmg/config.py.  The marker grammar (mmg.utils), the classifier          *)
(* (mmg.classifier) and the health checker (mmg.health) are modelled from  *)
(* the design document, sections 4.1, 4.3, 4.4 and 4.5.                    *)
(*                                                                         *)
(* One call of an entry point is one behaviour: the inputs are chosen in   *)
(* Init and the actions are the successive statements of the entry point.  *)
(***************************************************************************)
EXTENDS Integers, Sequences, FiniteSets, TLC

VARIABLES
    entry,      \* which entry point is called: "convert", "jupyter", "yml"
    base,       \* the document handed to the entry point
    cfgArg,     \* the cfg argument: NoneCfg or a Config
    opts,       \* skip_health_check, force_convert, print_log, file_name, verbosity
    pc,         \* the statement the call is at
    cfg,        \* the local cfg after the first statement
    hc,         \* the HealthChecker built by _health_check (ran = FALSE: none built)
    log,        \* the lines printed by the call
    docs,       \* the classifier's per-language outputs
    result,     \* the value returned
    err,        \* the exception raised
    trace       \* the steps the call has executed, in order

vars == <<entry, base, cfgArg, opts, pc, cfg, hc, log, docs, result, err, trace>>

----------------------------------------------------------------------------
(* Bounds of the model *)

MaxLines == 3       \* lines of a line-oriented document
MaxLeafLines == 2   \* lines of a string leaf of a tree, or of a notebook cell
MaxItems == 2       \* entries of a sequence node of a tree, cells of a notebook
MaxConfigLines == 4 \* lines of a document handed to the config extractor
MaxBlocks == 3      \* marker-and-content blocks of a document to classify

----------------------------------------------------------------------------
(* Generic helpers *)

Range(s) == {s[i] : i \in 1..Len(s)}

SeqsUpTo(S, n) == UNION {[1..m -> S] : m \in 0..n}

\* The keys of a Python dict built by inserting the elements of s in order:
\* a repeated key keeps its first position.
RECURSIVE DictKeys(_)
DictKeys(s) ==
    IF s = <<>> THEN <<>>
    ELSE LET front == DictKeys(SubSeq(s, 1, Len(s) - 1))
             last  == s[Len(s)]
         IN  IF last \in Range(front) THEN front ELSE Append(front, last)

----------------------------------------------------------------------------
(* Python values *)

NoneCfg == [none |-> TRUE]              \* cfg=None
NoneStr == "<None>"                     \* None where a str is expected

Config(tags, ns) == [lang_tags |-> tags, no_suffix |-> ns]

RESERVED_KEYWORDS == {"common", "ignore", "<Unknown>"}

NoErr == [type |-> "none", what |-> "", line |-> 0, status |-> "", messages |-> <<>>]

\* BadConfigError(f"The configuration '{config_name}' is already defined.")
\* and, re-raised by the extractor, with " [Check line: n]" appended
DuplicateError(config_name, line) ==
    [type |-> "BadConfigError", what |-> config_name, line |-> line,
     status |-> "", messages |-> <<>>]

\* the health-check error raised without the checker's messages
HealthError_without_messages(status, messages) ==
    [type |-> "BadConfigError", what |-> "Health check failed.", line |-> 0,
     status |-> status, messages |-> <<>>]

\* BadConfigError(f"Health check failed.\n - Status: ...\n - Error:\n...")
HealthError(status, messages) ==
    [type |-> "BadConfigError", what |-> "Health check failed.", line |-> 0,
     status |-> status, messages |-> messages]

----------------------------------------------------------------------------
(* Lines and the marker grammar.  A line is what the grammar makes of it:  *)
(* its directive kind, the comment syntax that carries the directive, and  *)
(* the payload.  A text is the sequence of its "\n"-separated segments.    *)

Txt(s)            == [k |-> "text",      syn |-> "none", a |-> <<s>>]
Heading(s)        == [k |-> "heading",   syn |-> "none", a |-> <<s>>]
Fence             == [k |-> "fence",     syn |-> "none", a |-> <<>>]
Switch(syn, tag)  == [k |-> "switch",    syn |-> syn,    a |-> <<tag>>]
LangTags(syn, it) == [k |-> "lang_tags", syn |-> syn,    a |-> it]
NoSuffix(syn, t)  == [k |-> "no_suffix", syn |-> syn,    a |-> <<t>>]
TocLine(s)        == [k |-> "toc",       syn |-> "none", a |-> <<s>>]
EmptyLine         == Txt("")

\* REGEX_PATTERN["comment"].match(line)
REGEX_comment(line) == line.syn \in {"block", "hash"}
\* REGEX_PATTERN["lang_tags"].search(line); group(2) is the payload
REGEX_lang_tags(line) == REGEX_comment(line) /\ line.k = "lang_tags"
\* REGEX_PATTERN["no_suffix"].search(line); group(1) is the payload
REGEX_no_suffix(line) == REGEX_comment(line) /\ line.k = "no_suffix"
\* the language-switch form, [tag], in either comment syntax
REGEX_tag(line) == REGEX_comment(line) /\ line.k = "switch"

\* str.replace(" ", "") and str.strip() on the tag spellings of the model
RemoveSpaces(s) ==
    CASE s = " es" -> "es"
      [] s = "en " -> "en"
      [] OTHER     -> s

\* str.splitlines(): a final empty segment is no line
splitlines(text) ==
    IF text[Len(text)] = EmptyLine THEN SubSeq(text, 1, Len(text) - 1) ELSE text

\* "\n".join(lines)
join(lines) == IF lines = <<>> THEN <<EmptyLine>> ELSE lines

\* flag_code_block_lines: TRUE for the fence lines and the lines between an
\* opening fence and its closing fence (or the end of the document)
RECURSIVE FencesBefore(_, _)
FencesBefore(lines, i) ==
    IF i <= 1 THEN 0
    ELSE FencesBefore(lines, i - 1) + (IF lines[i - 1].k = "fence" THEN 1 ELSE 0)

flag_code_block_lines(lines) ==
    [i \in 1..Len(lines) |->
        lines[i].k = "fence" \/ FencesBefore(lines, i) % 2 = 1]

----------------------------------------------------------------------------
(* mmg/config.py *)

\* the duplicate check left out
check_duplicate_config_value_never(truthy, config_name) ==
    [raised |-> FALSE, name |-> config_name]

\* _check_duplicate_config_value: `if value: raise`; truthy is bool(value)
check_duplicate_config_value(truthy, config_name) ==
    [raised |-> truthy, name |-> config_name]

\* _try_update_lang_tags
try_update_lang_tags(line, c) ==
    IF REGEX_lang_tags(line)
    THEN LET chk == check_duplicate_config_value(c.lang_tags # <<>>, "lang_tags")
         IN  IF chk.raised
             THEN [raised |-> TRUE, name |-> chk.name, cfg |-> c]
             ELSE [raised |-> FALSE, name |-> "",
                   cfg |-> [c EXCEPT !.lang_tags =
                               [i \in 1..Len(line.a) |-> RemoveSpaces(line.a[i])]]]
    ELSE [raised |-> FALSE, name |-> "", cfg |-> c]

\* _try_update_no_suffix
try_update_no_suffix(line, c) ==
    IF REGEX_no_suffix(line)
    THEN LET chk == check_duplicate_config_value(
                        c.no_suffix # NoneStr /\ c.no_suffix # "", "no_suffix")
         IN  IF chk.raised
             THEN [raised |-> TRUE, name |-> chk.name, cfg |-> c]
             ELSE [raised |-> FALSE, name |-> "",
                   cfg |-> [c EXCEPT !.no_suffix = line.a[1]]]
    ELSE [raised |-> FALSE, name |-> "", cfg |-> c]

\* the loop with the code-block test left out: fenced lines are read too
RECURSIVE ExtractLoop_no_code_skip(_, _, _, _)
ExtractLoop_no_code_skip(base_doc, is_in_code_block, i, c) ==
    IF i > Len(base_doc) THEN [err |-> NoErr, cfg |-> c]
    ELSE IF ~REGEX_comment(base_doc[i])
         THEN ExtractLoop_no_code_skip(base_doc, is_in_code_block, i + 1, c)
    ELSE LET r1 == try_update_lang_tags(base_doc[i], c)
         IN  IF r1.raised THEN [err |-> DuplicateError(r1.name, i), cfg |-> NoneCfg]
             ELSE LET r2 == try_update_no_suffix(base_doc[i], r1.cfg)
                  IN  IF r2.raised
                      THEN [err |-> DuplicateError(r2.name, i), cfg |-> NoneCfg]
                      ELSE ExtractLoop_no_code_skip(base_doc, is_in_code_block,
                                                    i + 1, r2.cfg)

\* the loop of extract_config_from_md, from line i on (1-based here, so the
\* line number of the message, line_num + 1, is i)
RECURSIVE ExtractLoop(_, _, _, _)
ExtractLoop(base_doc, is_in_code_block, i, c) ==
    IF i > Len(base_doc) THEN [err |-> NoErr, cfg |-> c]
    ELSE IF is_in_code_block[i] THEN ExtractLoop(base_doc, is_in_code_block, i + 1, c)
    ELSE IF ~REGEX_comment(base_doc[i])
         THEN ExtractLoop(base_doc, is_in_code_block, i + 1, c)
    ELSE LET r1 == try_update_lang_tags(base_doc[i], c)
         IN  IF r1.raised THEN [err |-> DuplicateError(r1.name, i), cfg |-> NoneCfg]
             ELSE LET r2 == try_update_no_suffix(base_doc[i], r1.cfg)
                  IN  IF r2.raised
                      THEN [err |-> DuplicateError(r2.name, i), cfg |-> NoneCfg]
                      ELSE ExtractLoop(base_doc, is_in_code_block, i + 1, r2.cfg)

extract_config_from_md(base_doc) ==
    ExtractLoop(base_doc, flag_code_block_lines(base_doc), 1, Config(<<>>, NoneStr))


----------------------------------------------------------------------------
(* Trees (parsed YAML) and notebooks.  A node is a str leaf (v: its text),  *)
(* another scalar (v: its printed value), a dict (v: its items, in order)   *)
(* or a list (v: its elements).                                             *)

StrNode(text)   == [t |-> "str",    v |-> text]
Scalar(s)       == [t |-> "scalar", v |-> <<s>>]
DictNode(items) == [t |-> "dict",   v |-> items]
ListNode(elems) == [t |-> "list",   v |-> elems]

HasKey(d, key) == \E i \in 1..Len(d.v) : d.v[i][1] = key
\* dict.get(key, default)
Get(d, key, default) ==
    IF HasKey(d, key) THEN d.v[CHOOSE i \in 1..Len(d.v) : d.v[i][1] = key][2]
    ELSE default

\* the one-line string a str leaf or a scalar prints as: str(value)
StrOf(node) == IF node.t = "str" THEN node.v[1].a[1] ELSE node.v[1]

\* "a,b".split(","), on the comma-separated strings of the model
CommaSplit(s) ==
    CASE s = "en,es"  -> <<"en", "es">>
      [] s = "en, es" -> <<"en", " es">>
      [] OTHER        -> <<s>>

Cell(cell_type, source) == [cell_type |-> cell_type, source |-> source]

\* [line for cell in md_cells for line in cell]
RECURSIVE FlattenMarkdown(_)
FlattenMarkdown(cells) ==
    IF cells = <<>> THEN <<>>
    ELSE (IF cells[1].cell_type = "markdown" THEN cells[1].source ELSE <<>>)
         \o FlattenMarkdown(Tail(cells))

extract_config_from_jupyter(base_jn) ==
    extract_config_from_md(FlattenMarkdown(base_jn.cells))

extract_config_from_yml(base_yml) ==
    LET mmg_config == Get(base_yml, "mmg", DictNode(<<>>))
        raw        == Get(mmg_config, "lang_tags", ListNode(<<>>))
        lang_tags  ==
            IF ~HasKey(mmg_config, "lang_tags") THEN <<>>
            ELSE IF raw.t = "str"
                 THEN LET parts == CommaSplit(StrOf(raw))
                      IN  [i \in 1..Len(parts) |-> RemoveSpaces(parts[i])]
                 ELSE [i \in 1..Len(raw.v) |-> RemoveSpaces(StrOf(raw.v[i]))]
        no_suffix  ==
            IF HasKey(mmg_config, "no_suffix")
            THEN RemoveSpaces(StrOf(Get(mmg_config, "no_suffix", Scalar(NoneStr))))
            ELSE NoneStr
    IN  IF mmg_config.t = "dict"
        THEN [err |-> NoErr, cfg |-> Config(lang_tags, no_suffix)]
        ELSE [err |-> NoErr, cfg |-> Config(<<>>, NoneStr)]

----------------------------------------------------------------------------
(* mmg.classifier: the classification engine (design document, 4.3) *)

\* the routing with `common` content sent to the first declared language only
Routes_common_to_first(active, lang, lang_tags) ==
    CASE active = "<Unknown>"          -> TRUE
      [] active = "common"             -> lang = lang_tags[1]
      [] active = "ignore"             -> FALSE
      [] active \in Range(lang_tags)   -> lang = active
      [] OTHER                         -> FALSE

\* whether a content line read under the active tag goes to lang's output
Routes(active, lang, lang_tags) ==
    CASE active = "<Unknown>"          -> TRUE
      [] active = "common"             -> TRUE
      [] active = "ignore"             -> FALSE
      [] active \in Range(lang_tags)   -> lang = active
      [] OTHER                         -> FALSE

\* MarkdownClassifier(lang_tags).docs: one empty output per declared tag
MarkdownClassifier(lang_tags) == [lang \in Range(lang_tags) |-> <<>>]

RECURSIVE ClassifyLoop(_, _, _, _, _)
ClassifyLoop(lines, lang_tags, i, active, d) ==
    IF i > Len(lines) THEN d
    ELSE IF REGEX_tag(lines[i])
         THEN ClassifyLoop(lines, lang_tags, i + 1, lines[i].a[1], d)
         ELSE ClassifyLoop(lines, lang_tags, i + 1, active,
                  [lang \in DOMAIN d |->
                      IF Routes(active, lang, lang_tags)
                      THEN Append(d[lang], lines[i]) ELSE d[lang]])

\* MarkdownClassifier(lang_tags).classify(lines), then .docs
classify(lines, lang_tags) ==
    ClassifyLoop(lines, lang_tags, 1, "<Unknown>", MarkdownClassifier(lang_tags))

\* JupyterClassifier: init_targets, then push(cell) for every cell.  A code
\* cell goes to every notebook as it is; a markdown cell has its source
\* classified and goes to the notebooks its classified source is not empty for.
RECURSIVE PushCells(_, _, _)
PushCells(cells, lang_tags, d) ==
    IF cells = <<>> THEN d
    ELSE LET cell == cells[1]
             c    == classify(cell.source, lang_tags)
             nd   == [lang \in DOMAIN d |->
                        IF cell.cell_type # "markdown"
                        THEN [cells |-> Append(d[lang].cells, cell)]
                        ELSE IF c[lang] = <<>> THEN d[lang]
                        ELSE [cells |-> Append(d[lang].cells,
                                                Cell("markdown", c[lang]))]]
         IN  PushCells(Tail(cells), lang_tags, nd)

JupyterClassifier(base_jn, lang_tags) ==
    PushCells(base_jn.cells, lang_tags,
              [lang \in Range(lang_tags) |-> [cells |-> <<>>]])

----------------------------------------------------------------------------
(* The table of contents (design document, 4.5): one entry per heading,   *)
(* inserted after the first heading; nothing is removed or reordered.      *)

Headings(lines) == SelectSeq(lines, LAMBDA l : l.k = "heading")

TocBlock(headings) == [i \in 1..Len(headings) |-> TocLine(headings[i].a[1])]

insert_toc_lines(lines, block) ==
    IF \E i \in 1..Len(lines) : lines[i].k = "heading"
    THEN LET f == CHOOSE i \in 1..Len(lines) :
                     /\ lines[i].k = "heading"
                     /\ \A j \in 1..(i - 1) : lines[j].k # "heading"
         IN  SubSeq(lines, 1, f) \o block \o SubSeq(lines, f + 1, Len(lines))
    ELSE block \o lines

\* MarkdownClassifier.insert_toc
insert_toc(d) ==
    [lang \in DOMAIN d |-> insert_toc_lines(d[lang], TocBlock(Headings(d[lang])))]

RECURSIVE AllHeadings(_)
AllHeadings(cells) ==
    IF cells = <<>> THEN <<>>
    ELSE (IF cells[1].cell_type = "markdown" THEN Headings(cells[1].source) ELSE <<>>)
         \o AllHeadings(Tail(cells))

\* JupyterClassifier.insert_toc: the notebook's headings, into the first
\* markdown cell that holds a heading
insert_toc_jupyter(d) ==
    [lang \in DOMAIN d |->
        LET cells == d[lang].cells
            block == TocBlock(AllHeadings(cells))
            holds(i) == cells[i].cell_type = "markdown"
                        /\ Headings(cells[i].source) # <<>>
        IN  IF \E i \in 1..Len(cells) : holds(i)
            THEN LET f == CHOOSE i \in 1..Len(cells) :
                             holds(i) /\ \A j \in 1..(i - 1) : ~holds(j)
                 IN  [cells |-> [cells EXCEPT ![f].source =
                                    insert_toc_lines(cells[f].source, block)]]
            ELSE d[lang]]


----------------------------------------------------------------------------
(* mmg.health: the health checker (design document, 4.4) *)

HEALTHY   == "HEALTHY"
WARNING   == "WARNING"
UNHEALTHY == "UNHEALTHY"

NoHC == [ran |-> FALSE, status |-> "", tag_count |-> <<>>, error_messages |-> <<>>]

\* the lines of one line sequence, each with its code-block flag
Masked(lines) ==
    LET m == flag_code_block_lines(lines)
    IN  [i \in 1..Len(lines) |-> [line |-> lines[i], in_code |-> m[i]]]

\* the string leaves of a tree, in order, outside the `mmg` section
RECURSIVE ScanTree(_)
RECURSIVE ScanItems(_, _)
ScanItems(items, keyed) ==
    IF items = <<>> THEN <<>>
    ELSE (IF keyed
          THEN (IF items[1][1] = "mmg" THEN <<>> ELSE ScanTree(items[1][2]))
          ELSE ScanTree(items[1]))
         \o ScanItems(Tail(items), keyed)
ScanTree(node) ==
    CASE node.t = "str"  -> Masked(splitlines(node.v))
      [] node.t = "dict" -> ScanItems(node.v, TRUE)
      [] node.t = "list" -> ScanItems(node.v, FALSE)
      [] OTHER           -> <<>>

\* the lines the checker reads in a document of the given extension
Scan(b, extension) ==
    CASE extension = "md"    -> Masked(b)
      [] extension = "ipynb" -> Masked(FlattenMarkdown(b.cells))
      [] extension = "yml"   -> ScanTree(b)

IsMarker(scan, i) == ~scan[i].in_code /\ REGEX_tag(scan[i].line)

\* the count taken over every line, fenced code included
TagCount_in_code_too(scan, tag) ==
    Cardinality({i \in 1..Len(scan) :
                    REGEX_tag(scan[i].line) /\ scan[i].line.a[1] = tag})

\* occurrences of the switch marker of tag
TagCount(scan, tag) ==
    Cardinality({i \in 1..Len(scan) : IsMarker(scan, i) /\ scan[i].line.a[1] = tag})

\* a marker whose tag is neither declared nor a control keyword
Undeclared(scan, lang_tags, i) ==
    /\ IsMarker(scan, i)
    /\ scan[i].line.a[1] \notin Range(lang_tags) \cup {"common", "ignore"}

\* a marker with no content before the next marker or the end
NoContent(scan, i) ==
    /\ IsMarker(scan, i)
    /\ (i = Len(scan) \/ IsMarker(scan, i + 1))

RECURSIVE LineMessages(_, _, _)
LineMessages(scan, lang_tags, i) ==
    IF i > Len(scan) THEN <<>>
    ELSE (IF Undeclared(scan, lang_tags, i)
          THEN <<[msg |-> "undeclared tag", tag |-> scan[i].line.a[1], line |-> i]>>
          ELSE <<>>)
         \o (IF NoContent(scan, i)
             THEN <<[msg |-> "no content", tag |-> scan[i].line.a[1], line |-> i]>>
             ELSE <<>>)
         \o LineMessages(scan, lang_tags, i + 1)

RECURSIVE MissingMessages(_, _)
MissingMessages(scan, keys) ==
    IF keys = <<>> THEN <<>>
    ELSE (IF TagCount(scan, keys[1]) = 0
          THEN <<[msg |-> "missing tag", tag |-> keys[1], line |-> 0]>>
          ELSE <<>>)
         \o MissingMessages(scan, Tail(keys))

\* HealthChecker().health_check(base, cfg, extension), with the tag_count and
\* the error_messages it leaves behind
health_check(b, c, extension) ==
    LET scan == Scan(b, extension)
        tags == c.lang_tags
        bad  == \/ \E t \in Range(tags) : TagCount(scan, t) = 0
                \/ \E i \in 1..Len(scan) : Undeclared(scan, tags, i)
        warn == \E i \in 1..Len(scan) : NoContent(scan, i)
    IN  [ran            |-> TRUE,
         status         |-> IF bad THEN UNHEALTHY ELSE IF warn THEN WARNING ELSE HEALTHY,
         tag_count      |-> [t \in Range(tags) |-> TagCount(scan, t)],
         error_messages |-> LineMessages(scan, tags, 1)
                            \o MissingMessages(scan, DictKeys(tags))]

\* HealthChecker.cli_log(file_name, verbosity)
cli_log(h, keys, file_name, verbosity) ==
    <<[k |-> "status", status |-> h.status, file_name |-> file_name]>>
    \o (IF verbosity >= 1
        THEN [i \in 1..Len(keys) |-> [k |-> "count", tag |-> keys[i],
                                      n |-> h.tag_count[keys[i]]]]
        ELSE <<>>)
    \o (IF verbosity >= 2
        THEN [i \in 1..Len(h.error_messages) |-> [k |-> "error",
                                                  m |-> h.error_messages[i]]]
        ELSE <<>>)


----------------------------------------------------------------------------
(* mmg/api.py *)

\* a cfg argument counted as given only when it declares tags
use_given_cfg_if_tags(c) == c # NoneCfg /\ c.lang_tags # <<>>

\* `cfg if cfg else extract_config_from_...`: a Config instance is truthy
\* whatever its fields hold (a dataclass defines neither __bool__ nor __len__)
use_given_cfg(c) == c # NoneCfg

\* the gate run whatever skip_health_check says
gate_runs_always(o) == TRUE

\* `if not skip_health_check:`
gate_runs(o) == ~o.skip_health_check

\* the raise taken when force_convert is set instead of when it is not
must_raise_if_forced(force_convert, status) == force_convert /\ status # HEALTHY

\* the raise kept for UNHEALTHY alone
must_raise_unhealthy_only(force_convert, status) ==
    (~force_convert) /\ status = UNHEALTHY

\* `if (not force_convert) and (status != HealthStatus.HEALTHY):`
must_raise(force_convert, status) == (~force_convert) /\ status # HEALTHY

\* _health_check: the checker it builds, the log it prints, the error it raises
health_check_gate(b, c, extension, o) ==
    IF gate_runs(o)
    THEN LET h  == health_check(b, c, extension)
             lg == IF o.print_log
                   THEN cli_log(h, DictKeys(c.lang_tags), o.file_name, o.verbosity)
                   ELSE <<>>
         IN  [hc |-> h, log |-> lg,
              err |-> IF must_raise(o.force_convert, h.status)
                      THEN HealthError(h.status, h.error_messages)
                      ELSE NoErr]
    ELSE [hc |-> NoHC, log |-> <<>>, err |-> NoErr]

\* process_obj with the `mmg` test left out: the section is classified too
RECURSIVE process_obj_no_mmg_skip(_, _)
process_obj_no_mmg_skip(obj, lang_tags) ==
    CASE obj.t = "dict" ->
            [lang \in Range(lang_tags) |->
                DictNode([i \in 1..Len(obj.v) |->
                    <<obj.v[i][1], process_obj_no_mmg_skip(obj.v[i][2], lang_tags)[lang]>>])]
      [] obj.t = "list" ->
            [lang \in Range(lang_tags) |->
                ListNode([i \in 1..Len(obj.v) |->
                    process_obj_no_mmg_skip(obj.v[i], lang_tags)[lang]])]
      [] obj.t = "str" ->
            LET c == classify(splitlines(obj.v), lang_tags)
            IN  [lang \in Range(lang_tags) |-> StrNode(join(c[lang]))]
      [] OTHER ->
            [lang \in Range(lang_tags) |-> obj]

\* process_obj with the str branch left out: a string is copied like any scalar
RECURSIVE process_obj_str_as_scalar(_, _)
process_obj_str_as_scalar(obj, lang_tags) ==
    CASE obj.t = "dict" ->
            [lang \in Range(lang_tags) |->
                DictNode([i \in 1..Len(obj.v) |->
                    IF obj.v[i][1] = "mmg"
                    THEN obj.v[i]
                    ELSE <<obj.v[i][1],
                           process_obj_str_as_scalar(obj.v[i][2], lang_tags)[lang]>>])]
      [] obj.t = "list" ->
            [lang \in Range(lang_tags) |->
                ListNode([i \in 1..Len(obj.v) |->
                    process_obj_str_as_scalar(obj.v[i], lang_tags)[lang]])]
      [] OTHER ->
            [lang \in Range(lang_tags) |-> obj]

\* process_obj with one classifier kept across the string elements of a list:
\* an element starts under the tag its preceding sibling ended with
RECURSIVE process_obj_shared_classifier(_, _)
process_obj_shared_classifier(obj, lang_tags) ==
    CASE obj.t = "dict" ->
            [lang \in Range(lang_tags) |->
                DictNode([i \in 1..Len(obj.v) |->
                    IF obj.v[i][1] = "mmg"
                    THEN obj.v[i]
                    ELSE <<obj.v[i][1],
                           process_obj_shared_classifier(obj.v[i][2], lang_tags)[lang]>>])]
      [] obj.t = "list" ->
            LET carried(i) ==
                    IF i > 1 /\ obj.v[i - 1].t = "str"
                    THEN LET prev == splitlines(obj.v[i - 1].v)
                             ms   == {j \in 1..Len(prev) : REGEX_tag(prev[j])}
                         IN  IF ms = {} THEN "<Unknown>"
                             ELSE prev[CHOOSE j \in ms : \A m \in ms : m <= j].a[1]
                    ELSE "<Unknown>"
            IN  [lang \in Range(lang_tags) |->
                    ListNode([i \in 1..Len(obj.v) |->
                        IF obj.v[i].t = "str"
                        THEN StrNode(join(ClassifyLoop(splitlines(obj.v[i].v), lang_tags, 1,
                                              carried(i),
                                              MarkdownClassifier(lang_tags))[lang]))
                        ELSE process_obj_shared_classifier(obj.v[i], lang_tags)[lang]])]
      [] obj.t = "str" ->
            LET c == classify(splitlines(obj.v), lang_tags)
            IN  [lang \in Range(lang_tags) |-> StrNode(join(c[lang]))]
      [] OTHER ->
            [lang \in Range(lang_tags) |-> obj]

\* process_obj of convert_base_yml: the per-language value of obj
RECURSIVE process_obj(_, _)
process_obj(obj, lang_tags) ==
    CASE obj.t = "dict" ->
            [lang \in Range(lang_tags) |->
                DictNode([i \in 1..Len(obj.v) |->
                    IF obj.v[i][1] = "mmg"
                    THEN obj.v[i]
                    ELSE <<obj.v[i][1], process_obj(obj.v[i][2], lang_tags)[lang]>>])]
      [] obj.t = "list" ->
            [lang \in Range(lang_tags) |->
                ListNode([i \in 1..Len(obj.v) |-> process_obj(obj.v[i], lang_tags)[lang]])]
      [] obj.t = "str" ->
            LET c == classify(splitlines(obj.v), lang_tags)
            IN  [lang \in Range(lang_tags) |-> StrNode(join(c[lang]))]
      [] OTHER ->
            [lang \in Range(lang_tags) |-> obj]

Extension(e) ==
    CASE e = "convert" -> "md"
      [] e = "jupyter" -> "ipynb"
      [] e = "yml"     -> "yml"

\* convert: base_doc = base_md.splitlines()
BaseDoc(e, b) == IF e = "convert" THEN splitlines(b) ELSE b

\* the first statement of an entry point
ExtractStep(e, b, ca) ==
    IF use_given_cfg(ca) THEN [ran |-> FALSE, err |-> NoErr, cfg |-> ca]
    ELSE LET r == CASE e = "convert" -> extract_config_from_md(BaseDoc(e, b))
                    [] e = "jupyter" -> extract_config_from_jupyter(b)
                    [] e = "yml"     -> extract_config_from_yml(b)
         IN  [ran |-> TRUE, err |-> r.err, cfg |-> r.cfg]

\* the classification statements of an entry point
ClassifyStep(e, b, c) ==
    CASE e = "convert" -> classify(BaseDoc(e, b), c.lang_tags)
      [] e = "jupyter" -> JupyterClassifier(b, c.lang_tags)
      [] e = "yml"     -> process_obj(b, c.lang_tags)

\* target_docs.insert_toc() / jupyter_docs.insert_toc(); convert_base_yml has none
TocStep(e, d) ==
    CASE e = "convert" -> insert_toc(d)
      [] e = "jupyter" -> insert_toc_jupyter(d)
      [] e = "yml"     -> d

\* the value returned, with the languages that got no line left out
ReturnStep_drop_empty(e, d, c) ==
    LET keys == SelectSeq(DictKeys(c.lang_tags),
                          LAMBDA t : e # "convert" \/ d[t] # <<>>)
    IN  [keys |-> keys,
         val  |-> IF e = "convert" THEN [lang \in Range(keys) |-> join(d[lang])]
                  ELSE [lang \in Range(keys) |-> d[lang]]]

\* the value returned: a dict keyed by the declared tags, in their order;
\* convert joins each document's lines
ReturnStep(e, d, c) ==
    [keys |-> DictKeys(c.lang_tags),
     val  |-> IF e = "convert" THEN [lang \in DOMAIN d |-> join(d[lang])] ELSE d]

NoResult == [keys |-> <<>>, val |-> <<>>]

----------------------------------------------------------------------------
(* The call, statement by statement *)

Start(S) ==
    /\ pc = "extract"
    /\ cfg = NoneCfg
    /\ hc = NoHC
    /\ log = <<>>
    /\ docs = <<>>
    /\ result = NoResult
    /\ err = NoErr
    /\ trace = <<>>
    /\ S

ExtractConfig ==
    /\ pc = "extract"
    /\ LET r == ExtractStep(entry, base, cfgArg)
       IN  /\ trace' = Append(trace, IF r.ran THEN "extract" ELSE "given")
           /\ IF r.err.type # "none"
              THEN pc' = "raised" /\ err' = r.err /\ cfg' = cfg
              ELSE pc' = "health" /\ err' = err /\ cfg' = r.cfg
    /\ UNCHANGED <<entry, base, cfgArg, opts, hc, log, docs, result>>

HealthCheck ==
    /\ pc = "health"
    /\ LET g == health_check_gate(BaseDoc(entry, base), cfg, Extension(entry), opts)
       IN  /\ hc' = g.hc
           /\ log' = log \o g.log
           /\ trace' = Append(trace, IF g.hc.ran THEN "health" ELSE "skip")
           /\ IF g.err.type # "none"
              THEN pc' = "raised" /\ err' = g.err
              ELSE pc' = "classify" /\ err' = err
    /\ UNCHANGED <<entry, base, cfgArg, opts, cfg, docs, result>>

Classify ==
    /\ pc = "classify"
    /\ docs' = ClassifyStep(entry, base, cfg)
    /\ trace' = Append(trace, "classify")
    /\ pc' = IF entry = "yml" THEN "return" ELSE "toc"
    /\ UNCHANGED <<entry, base, cfgArg, opts, cfg, hc, log, result, err>>

InsertToc ==
    /\ pc = "toc"
    /\ docs' = TocStep(entry, docs)
    /\ trace' = Append(trace, "toc")
    /\ pc' = "return"
    /\ UNCHANGED <<entry, base, cfgArg, opts, cfg, hc, log, result, err>>

Return ==
    /\ pc = "return"
    /\ result' = ReturnStep(entry, docs, cfg)
    /\ trace' = Append(trace, "return")
    /\ pc' = "done"
    /\ UNCHANGED <<entry, base, cfgArg, opts, cfg, hc, log, docs, err>>

Next == ExtractConfig \/ HealthCheck \/ Classify \/ InsertToc \/ Return

----------------------------------------------------------------------------
(* The calls of the gate specification: every entry point, with and       *)
(* without a cfg argument, under every combination of the gate's flags.   *)

Texts(A, n) == SeqsUpTo(A \cup {EmptyLine}, n) \ {<<>>}

NoCfg == Config(<<>>, NoneStr)

OptSet ==
    {[skip_health_check |-> s, force_convert |-> f, print_log |-> p,
      file_name |-> IF p THEN "README" ELSE NoneStr,
      verbosity |-> IF p THEN 2 ELSE 0] : s \in BOOLEAN, f \in BOOLEAN, p \in BOOLEAN}

AllOpts ==
    [skip_health_check : BOOLEAN, force_convert : BOOLEAN, print_log : BOOLEAN,
     file_name : {NoneStr, "README"}, verbosity : 0..2]

GateLines ==
    {Txt("x"), Switch("block", "en"), Switch("hash", "es"),
     LangTags("block", <<"en", " es">>), Fence}

GateConfigs ==
    {NoneCfg, NoCfg, Config(<<"en">>, NoneStr), Config(<<"en", "es">>, NoneStr)}

GateCells ==
    {Cell("markdown", <<Switch("block", "en"), Txt("x")>>),
     Cell("markdown", <<Switch("hash", "es"), Txt("x")>>),
     Cell("markdown", <<LangTags("block", <<"en", "es">>)>>),
     Cell("code", <<Txt("x")>>)}

GateMmg ==
    {<<>>,
     <<<<"mmg", DictNode(<<<<"lang_tags", ListNode(<<StrNode(<<Txt("en")>>),
                                                     StrNode(<<Txt("es")>>)>>)>>>>)>>>>,
     <<<<"mmg", DictNode(<<<<"lang_tags", StrNode(<<Txt("en, es")>>)>>>>)>>>>}

GateTrees ==
    {DictNode(m \o <<<<"body", StrNode(t)>>>>) :
        m \in GateMmg,
        t \in Texts({Txt("x"), Switch("block", "en"), Switch("hash", "es")}, MaxLeafLines)}

Init ==
    Start(/\ cfgArg \in GateConfigs
          /\ opts \in OptSet
          /\ \/ entry = "convert" /\ base \in Texts(GateLines, MaxLines)
             \/ entry = "jupyter" /\ base \in [cells : SeqsUpTo(GateCells, MaxItems)]
             \/ entry = "yml" /\ base \in GateTrees)

Spec == Init /\ [][Next]_vars

(* The calls of the classification specification: documents and string    *)
(* leaves over every kind of switch marker, in both comment syntaxes.      *)

ClassifyMarkers ==
    {Switch("block", "en"), Switch("hash", "es"), Switch("block", "fr"),
     Switch("block", "common"), Switch("hash", "ignore")}

\* a block: a marker and a line of content, or one line alone
Blocks ==
    {<<m, Txt("x")>> : m \in ClassifyMarkers}
    \cup {<<Txt("x")>>, <<Heading("T")>>, <<EmptyLine>>,
          <<Switch("block", "en")>>, <<Switch("hash", "es")>>}

RECURSIVE Flatten(_)
Flatten(ss) == IF ss = <<>> THEN <<>> ELSE ss[1] \o Flatten(Tail(ss))

BlockTexts(n) == {Flatten(ss) : ss \in SeqsUpTo(Blocks, n)} \ {<<>>}

ClassifyConfigs ==
    {Config(<<"en">>, NoneStr), Config(<<"en", "es">>, NoneStr),
     Config(<<"es", "en", "es">>, NoneStr), Config(<<"ignore", "en">>, NoneStr)}

ClassifyOpts ==
    {o \in OptSet : ~o.print_log /\ (o.skip_health_check # o.force_convert)}

SkipOpts == {o \in ClassifyOpts : o.skip_health_check}

InitClassify ==
    Start(/\ cfgArg \in ClassifyConfigs
          /\ opts \in SkipOpts
          /\ \/ entry = "convert" /\ base \in BlockTexts(MaxBlocks)
             \/ /\ entry = "yml"
                /\ base \in {DictNode(<<<<"body", StrNode(t)>>>>) :
                                t \in BlockTexts(MaxLeafLines)})

SpecClassify == InitClassify /\ [][Next]_vars

(* The calls of the extractor specification: no cfg argument, documents   *)
(* of directives, fences and text.                                         *)

ConfigLines ==
    {Txt("x"), Fence, LangTags("block", <<"en", " es">>), LangTags("hash", <<"en">>),
     NoSuffix("block", "en")}

InitConfig ==
    Start(/\ cfgArg = NoneCfg
          /\ opts \in ClassifyOpts
          /\ entry = "convert"
          /\ base \in Texts(ConfigLines, MaxConfigLines))

SpecConfig == InitConfig /\ [][Next]_vars

(* The calls of the tree specification: nested mappings and sequences,    *)
(* string leaves and other scalars, with and without an `mmg` section.     *)

TreeLeaves ==
    {StrNode(<<Switch("block", "en"), Txt("A"), Switch("hash", "es"), Txt("B")>>),
     StrNode(<<Switch("block", "en"), Txt("A")>>),
     StrNode(<<Txt("x")>>),
     Scalar("42"), Scalar("True")}

TreeInner ==
    TreeLeaves
    \cup {DictNode(<<<<"name", l>>>>) : l \in TreeLeaves}
    \cup {DictNode(<<<<"mmg", l>>>>) : l \in TreeLeaves}
    \cup {ListNode(s) : s \in SeqsUpTo(TreeLeaves
                                       \cup {DictNode(<<<<"name", StrNode(<<Txt("x")>>)>>>>)},
                                       MaxItems)}

TreeMmg ==
    GateMmg
    \cup {<<<<"mmg", DictNode(<<
                <<"lang_tags", ListNode(<<StrNode(<<Txt("en")>>), StrNode(<<Txt("es")>>)>>)>>,
                <<"no_suffix", StrNode(<<Txt("en")>>)>>,
                <<"note", StrNode(<<Switch("block", "en"), Txt("A")>>)>> >>)>>>>}

Trees == {DictNode(m \o <<<<"app", n>>>>) : m \in TreeMmg, n \in TreeInner}

InitYml ==
    Start(/\ cfgArg \in {NoneCfg, Config(<<"en">>, NoneStr), Config(<<"en", "es">>, NoneStr)}
          /\ opts \in ClassifyOpts
          /\ entry = "yml"
          /\ base \in Trees)

NextYml == ExtractConfig \/ HealthCheck \/ Classify \/ Return

SpecYml == InitYml /\ [][NextYml]_vars


----------------------------------------------------------------------------
(* What a whole call comes to, as a function of its arguments *)

Outcome(e, b, ca, o) ==
    LET x == ExtractStep(e, b, ca)
    IN  IF x.err.type # "none"
        THEN [returned |-> FALSE, result |-> NoResult, err |-> x.err,
              log |-> <<>>, hc_ran |-> FALSE]
        ELSE LET g == health_check_gate(BaseDoc(e, b), x.cfg, Extension(e), o)
             IN  IF g.err.type # "none"
                 THEN [returned |-> FALSE, result |-> NoResult, err |-> g.err,
                       log |-> g.log, hc_ran |-> g.hc.ran]
                 ELSE [returned |-> TRUE,
                       result |-> ReturnStep(e, TocStep(e, ClassifyStep(e, b, x.cfg)), x.cfg),
                       err |-> NoErr, log |-> g.log, hc_ran |-> g.hc.ran]

----------------------------------------------------------------------------
(* Vocabulary of the properties *)

Terminal == pc \in {"done", "raised"}
Did(step) == step \in Range(trace)
GateDone == Len(trace) >= 2
HealthRaised == pc = "raised" /\ err.what = "Health check failed."

\* the lines of the document that the gate reads
DocScan == Scan(BaseDoc(entry, base), Extension(entry))

\* tag has no switch marker anywhere in the document
NoMarkerOf(tag) ==
    \A i \in 1..Len(DocScan) :
        ~(DocScan[i].line.k = "switch" /\ DocScan[i].line.a[1] = tag)

\* every declared tag is counted at least once by the checker
AllCounted == \A t \in Range(cfg.lang_tags) : hc.tag_count[t] >= 1

\* no marker outside fenced code names a tag that is neither declared nor a
\* control keyword
NoneUndeclared ==
    \A i \in 1..Len(DocScan) :
        (~DocScan[i].in_code /\ DocScan[i].line.k = "switch")
            => DocScan[i].line.a[1] \in Range(cfg.lang_tags) \cup {"common", "ignore"}

\* some marker outside fenced code is followed by no content
SomeEmptySpan ==
    \E i \in 1..Len(DocScan) :
        /\ ~DocScan[i].in_code /\ DocScan[i].line.k = "switch"
        /\ (i = Len(DocScan)
            \/ (~DocScan[i + 1].in_code /\ DocScan[i + 1].line.k = "switch"))

\* the tag of the last switch marker before line i, <Unknown> when there is none
Governing(lines, i) ==
    LET ms == {j \in 1..(i - 1) : lines[j].k = "switch" /\ lines[j].syn # "none"}
    IN  IF ms = {} THEN "<Unknown>"
        ELSE lines[CHOOSE j \in ms : \A m \in ms : m <= j].a[1]

IsContent(lines, i) == ~(lines[i].k = "switch" /\ lines[i].syn # "none")

\* line i is a content line meant for the declared tag t
MeantFor(lines, i, t) ==
    /\ IsContent(lines, i)
    /\ LET g == Governing(lines, i)
       IN  g \in {"<Unknown>", "common"} \/ (g # "ignore" /\ g = t)

\* the declared tags in the order of their first declaration
FirstDeclared(tags) ==
    LET firsts == {i \in 1..Len(tags) : \A j \in 1..(i - 1) : tags[j] # tags[i]}
        nth[n \in 0..Len(tags)] ==
            IF n = 0 THEN 0
            ELSE CHOOSE i \in firsts : i > nth[n - 1]
                     /\ \A j \in firsts : j > nth[n - 1] => i <= j
    IN  [n \in 1..Cardinality(firsts) |-> tags[nth[n]]]

\* the declared tag t gets no content line of the document
ReceivesNothing(t) ==
    CASE entry = "convert" ->
            \A i \in 1..Len(BaseDoc(entry, base)) : ~MeantFor(BaseDoc(entry, base), i, t)
      [] entry = "jupyter" ->
            \A c \in 1..Len(base.cells) :
                base.cells[c].cell_type = "markdown"
                    => \A i \in 1..Len(base.cells[c].source) :
                            ~MeantFor(base.cells[c].source, i, t)
      [] entry = "yml" ->
            \A i \in 1..Len(splitlines(Get(base, "body", StrNode(<<EmptyLine>>)).v)) :
                ~MeantFor(splitlines(Get(base, "body", StrNode(<<EmptyLine>>)).v), i, t)

\* the output of a language that got no content
IsEmptyOutput(out) ==
    CASE entry = "convert" -> out = <<EmptyLine>>
      [] entry = "jupyter" -> out.cells = SelectSeq(base.cells, LAMBDA c : c.cell_type # "markdown")
      [] entry = "yml"     -> Get(out, "body", Scalar(NoneStr)) = StrNode(<<EmptyLine>>)

----------------------------------------------------------------------------
\* C1 (gate blocking): classification and the table of contents are reached
\* only when the gate was skipped, was forced, or returned HEALTHY; and a
\* call with skip_health_check=False and force_convert=False on a document in
\* which some declared tag has no switch marker gets the verdict UNHEALTHY,
\* raises, and executes neither step.
C1_GateBlocking ==
    /\ (Did("classify") \/ Did("toc"))
          => \/ opts.skip_health_check
             \/ opts.force_convert
             \/ (hc.ran /\ hc.status = HEALTHY)
    /\ ( /\ GateDone
         /\ ~opts.skip_health_check
         /\ ~opts.force_convert
         /\ \E t \in Range(cfg.lang_tags) : NoMarkerOf(t) )
          => /\ hc.ran /\ hc.status = UNHEALTHY
             /\ HealthRaised
             /\ ~Did("classify") /\ ~Did("toc")

C1_Witness ==
    /\ HealthRaised
    /\ hc.status = UNHEALTHY
    /\ ~opts.skip_health_check /\ ~opts.force_convert
    /\ \E t \in Range(cfg.lang_tags) : NoMarkerOf(t)
    /\ entry = "yml"

\* C6 as stated: a WARNING verdict, without force_convert, does not block the
\* conversion.
C6_WarningDoesNotBlock ==
    (GateDone /\ hc.ran /\ hc.status = WARNING /\ ~opts.force_convert)
        => pc # "raised"

\* C6 (amended): a WARNING verdict blocks the conversion like UNHEALTHY: without
\* force_convert the call raises before classification, the error carrying the
\* verdict; with force_convert it proceeds to classification and returns.
C6_WarningBlocks ==
    (GateDone /\ hc.ran /\ hc.status = WARNING)
        => IF opts.force_convert
           THEN pc # "raised" /\ (pc = "done" => Did("classify"))
           ELSE /\ pc = "raised"
                /\ err = HealthError(WARNING, hc.error_messages)
                /\ ~Did("classify")

C6_Witness ==
    /\ hc.ran /\ hc.status = WARNING /\ ~opts.force_convert
    /\ pc = "raised"

C8_NoPartialResults ==
    pc = "done" =>
        /\ result.keys = FirstDeclared(cfg.lang_tags)
        /\ DOMAIN result.val = Range(cfg.lang_tags)
        /\ \A t \in Range(cfg.lang_tags) :
              ReceivesNothing(t) => IsEmptyOutput(result.val[t])

C8_Witness ==
    /\ pc = "done"
    /\ hc.ran /\ hc.status = UNHEALTHY /\ opts.force_convert
    /\ entry = "convert"
    /\ cfg.lang_tags = <<"en", "es">>
    /\ ReceivesNothing("es") /\ ~ReceivesNothing("en")
    /\ result.val["es"] = <<EmptyLine>>

\* C9 (inertness under skip_health_check): a call with skip_health_check=True
\* runs no health check, prints no log and raises no health-check failure, and
\* every call on the same document and cfg with skip_health_check=True, whatever
\* its force_convert, print_log, file_name and verbosity, ends the same way.
C9_SkipInert ==
    (Terminal /\ opts.skip_health_check) =>
        /\ ~hc.ran /\ ~Did("health")
        /\ log = <<>>
        /\ ~HealthRaised
        /\ \A o \in AllOpts :
              o.skip_health_check =>
                  Outcome(entry, base, cfgArg, o)
                      = [returned |-> pc = "done", result |-> result, err |-> err,
                         log |-> log, hc_ran |-> hc.ran]

C9_Witness ==
    /\ pc = "done"
    /\ opts.skip_health_check /\ opts.force_convert /\ opts.print_log
    /\ \E t \in Range(cfg.lang_tags) : NoMarkerOf(t)

\* C10 (explicit Config bypass): with a Config passed, the extractor never
\* runs, the call raises no configuration error, the passed Config is the one
\* used, and the languages returned are exactly its lang_tags; also for a
\* Config whose lang_tags is empty.
DuplicateDirectives ==
    /\ entry = "convert"
    /\ \E i, j \in 1..Len(base) : i < j /\ base[i].k = "lang_tags" /\ base[j].k = "lang_tags"

C10_ConfigBypass ==
    cfgArg # NoneCfg =>
        /\ ~Did("extract")
        /\ Len(trace) >= 1 => cfg = cfgArg
        /\ pc = "raised" => HealthRaised
        /\ pc = "done" =>
              /\ result.keys = FirstDeclared(cfgArg.lang_tags)
              /\ DOMAIN result.val = Range(cfgArg.lang_tags)

C10_Witness ==
    /\ cfgArg = NoCfg
    /\ DuplicateDirectives
    /\ pc = "done"
    /\ result.keys = <<>>


----------------------------------------------------------------------------
(* Classification, as the properties see it *)

\* the lines of s at the positions in S, in order
Sub(s, S) ==
    LET F[n \in 0..Len(s)] ==
            IF n = 0 THEN <<>>
            ELSE IF n \in S THEN Append(F[n - 1], s[n]) ELSE F[n - 1]
    IN  F[Len(s)]

\* a line sequence that has been classified in the current state, and what
\* the classification made of it for the language lang, as a text
Classified == (entry = "convert" /\ pc = "toc") \/ (entry = "yml" /\ pc \in {"return", "done"})
SrcLines == IF entry = "convert" THEN BaseDoc(entry, base) ELSE splitlines(Get(base, "body", Scalar("")).v)
OutText(lang) == IF entry = "convert" THEN join(docs[lang]) ELSE Get(docs[lang], "body", Scalar("")).v

\* the tags an author uses for a language: declared, and no control keyword
LanguageTags == Range(cfg.lang_tags) \ {"common", "ignore"}

\* the positions of the content lines kept for lang: those governed by lang
\* itself, by `common`, or by no marker yet
Kept(lang) == {i \in 1..Len(SrcLines) : MeantFor(SrcLines, i, lang)}

\* C2 (round-trip completeness): the output of every declared language is the
\* document's lines at the kept positions, in their original order; so a
\* content line governed by `common` is in every output, one governed by
\* `ignore` is in none, and one governed by a declared language tag T is in
\* T's output and in no other.
C2_RoundTrip ==
    Classified =>
        \A lang \in Range(cfg.lang_tags) :
            /\ OutText(lang) = join(Sub(SrcLines, Kept(lang)))
            /\ \A i \in 1..Len(SrcLines) :
                  IsContent(SrcLines, i) =>
                      LET g == Governing(SrcLines, i)
                      IN  /\ g = "common" => i \in Kept(lang)
                          /\ g = "ignore" => i \notin Kept(lang)
                          /\ g \in LanguageTags => (i \in Kept(lang) <=> g = lang)

C2_Witness ==
    /\ Classified
    /\ cfg.lang_tags = <<"en", "es">>
    /\ \E i, j, k \in 1..Len(SrcLines) :
          /\ IsContent(SrcLines, i) /\ Governing(SrcLines, i) = "en"
          /\ IsContent(SrcLines, j) /\ Governing(SrcLines, j) = "es"
          /\ IsContent(SrcLines, k) /\ Governing(SrcLines, k) \in {"common", "ignore"}

\* the lines of the string leaves of a tree
RECURSIVE LeafLines(_)
LeafLines(node) ==
    CASE node.t = "str"  -> Range(node.v)
      [] node.t = "dict" -> UNION {LeafLines(node.v[i][2]) : i \in 1..Len(node.v)}
      [] node.t = "list" -> UNION {LeafLines(node.v[i]) : i \in 1..Len(node.v)}
      [] OTHER           -> {}

IsSwitchLine(l) == l.k = "switch" /\ l.syn \in {"block", "hash"}

\* C3 (marker elision): once a line sequence is classified, no per-language
\* output holds a line of the switch-marker form, in either comment syntax.
C3_MarkerElision ==
    /\ (entry = "convert" /\ pc \in {"toc", "return", "done"}) =>
          \A lang \in DOMAIN docs : \A l \in Range(docs[lang]) : ~IsSwitchLine(l)
    /\ (entry = "convert" /\ pc = "done") =>
          \A lang \in DOMAIN result.val : \A l \in Range(result.val[lang]) : ~IsSwitchLine(l)
    /\ (entry = "yml" /\ pc \in {"return", "done"}) =>
          \A lang \in DOMAIN docs : \A l \in LeafLines(docs[lang]) : ~IsSwitchLine(l)
    /\ (entry = "yml" /\ pc = "done") =>
          \A lang \in DOMAIN result.val : \A l \in LeafLines(result.val[lang]) : ~IsSwitchLine(l)

C3_Witness ==
    /\ entry = "yml" /\ pc = "done"
    /\ cfg.lang_tags = <<"en", "es">>
    /\ \E l \in Range(SrcLines) : IsSwitchLine(l) /\ l.syn = "block"
    /\ \E l \in Range(SrcLines) : IsSwitchLine(l) /\ l.syn = "hash"
    /\ \E lang \in DOMAIN result.val : OutText(lang) # <<EmptyLine>>


----------------------------------------------------------------------------
(* The extractor, as the properties see it *)

\* the lines outside fenced code that carry the directive `name`
Declarations(name) ==
    LET lines == BaseDoc(entry, base)
    IN  {i \in 1..Len(lines) :
            /\ lines[i].k = name /\ lines[i].syn \in {"block", "hash"}
            /\ FencesBefore(lines, i) % 2 = 0}

Declared2(name) == Cardinality(Declarations(name)) >= 2

\* the 1-based line of the second declaration of `name`
SecondOf(name) ==
    CHOOSE i \in Declarations(name) :
        Cardinality({j \in Declarations(name) : j < i}) = 1

ExtractorRan == entry = "convert" /\ Did("extract")

\* C4 as stated: a document with two lang_tags declarations (respectively two
\* no_suffix declarations) outside fenced code makes the extractor raise
\* BadConfigError with the line number of that second declaration, and no
\* Config is returned.
C4_DuplicateRejected ==
    \A name \in {"lang_tags", "no_suffix"} :
        (ExtractorRan /\ Declared2(name)) =>
            /\ pc = "raised" /\ err.type = "BadConfigError"
            /\ err.line = SecondOf(name)
            /\ cfg = NoneCfg

\* C4 (amended): such a document makes the extractor raise BadConfigError and
\* no Config is returned; the error names the directive whose second
\* declaration comes first in the document and carries the 1-based line
\* number of that second declaration.
C4_DuplicateRejectedAmended ==
    \A name \in {"lang_tags", "no_suffix"} :
        (ExtractorRan /\ Declared2(name)) =>
            /\ pc = "raised" /\ err.type = "BadConfigError"
            /\ cfg = NoneCfg
            /\ err.what \in {"lang_tags", "no_suffix"}
            /\ Declared2(err.what)
            /\ err.line = SecondOf(err.what)
            /\ err.line <= SecondOf(name)

C4_Witness ==
    /\ ExtractorRan /\ pc = "raised"
    /\ Declared2("lang_tags") /\ Declared2("no_suffix")
    /\ err.what = "no_suffix"
    /\ err.line < SecondOf("lang_tags")

----------------------------------------------------------------------------
(* Trees, as the properties see it *)

\* out has the shape of in: the same keys at every mapping, the same length
\* at every sequence, a string where in has a string, and in's own value at
\* every other scalar
RECURSIVE SameShape(_, _)
SameShape(in, out) ==
    CASE in.t = "dict" ->
            /\ out.t = "dict" /\ Len(out.v) = Len(in.v)
            /\ \A i \in 1..Len(in.v) :
                  /\ out.v[i][1] = in.v[i][1]
                  /\ SameShape(in.v[i][2], out.v[i][2])
      [] in.t = "list" ->
            /\ out.t = "list" /\ Len(out.v) = Len(in.v)
            /\ \A i \in 1..Len(in.v) : SameShape(in.v[i], out.v[i])
      [] in.t = "str" -> out.t = "str"
      [] OTHER -> out = in

----------------------------------------------------------------------------
(* The errors, as the properties see them *)

\* the exception class of the configuration error (duplicate declaration)
ConfigErrorKind == DuplicateError("lang_tags", 1).type

DuplicateRaised == pc = "raised" /\ err.what \in {"lang_tags", "no_suffix"}

\* C11 as stated: a health-check failure is raised as an error kind distinct
\* from the configuration error, and carries the verdict status and the full
\* ordered message list of the health-check run.
C11_DistinctErrorKind ==
    HealthRaised =>
        /\ err.type # ConfigErrorKind
        /\ err.status = hc.status
        /\ err.messages = hc.error_messages

\* C11 (amended): a health-check failure is raised as BadConfigError, the class
\* of the configuration error, and differs from it by its message alone, which
\* opens with "Health check failed." and carries the verdict status (never
\* HEALTHY) and the full ordered message list of the health-check run; a
\* configuration error carries neither and is raised before any health check.
C11_SameKindCarriesVerdict ==
    /\ HealthRaised =>
          /\ err.type = "BadConfigError" /\ err.type = ConfigErrorKind
          /\ err.what \notin {"lang_tags", "no_suffix"}
          /\ hc.ran /\ err.status = hc.status /\ err.status \in {WARNING, UNHEALTHY}
          /\ err.messages = hc.error_messages
    /\ DuplicateRaised =>
          /\ err.type = "BadConfigError"
          /\ ~hc.ran /\ err.status = "" /\ err.messages = <<>>

C11_Witness ==
    /\ HealthRaised
    /\ err.status = UNHEALTHY
    /\ Len(err.messages) >= 2
    /\ err.messages[1].msg # err.messages[2].msg

----------------------------------------------------------------------------
(* Fenced directives, as the properties see them *)

\* the lines inside fenced code that carry the directive `name`
FencedDeclarations(name) ==
    LET lines == BaseDoc(entry, base)
    IN  {i \in 1..Len(lines) :
            /\ lines[i].k = name /\ lines[i].syn \in {"block", "hash"}
            /\ FencesBefore(lines, i) % 2 = 1}

\* the tags a lang_tags line declares: its payload, the spaces removed
TagsOf(line) ==
    CASE line.a = <<"en", " es">> -> <<"en", "es">>
      [] OTHER                    -> line.a

\* the Config that the declarations outside fenced code make, when each
\* directive is declared there at most once
RealConfig ==
    LET lines == BaseDoc(entry, base)
        lt    == Declarations("lang_tags")
        ns    == Declarations("no_suffix")
    IN  Config(IF lt = {} THEN <<>> ELSE TagsOf(lines[CHOOSE i \in lt : TRUE]),
               IF ns = {} THEN NoneStr ELSE lines[CHOOSE i \in ns : TRUE].a[1])

\* C12 (code-block suppression in the extractor): when each directive is
\* declared at most once outside fenced code, the extractor raises nothing and
\* returns the Config of those declarations alone, however many declarations
\* stand inside fences.
C12_FencedDirectivesInert ==
    ( /\ ExtractorRan
      /\ Cardinality(Declarations("lang_tags")) <= 1
      /\ Cardinality(Declarations("no_suffix")) <= 1 )
        => /\ ~DuplicateRaised
           /\ cfg = RealConfig

C12_Witness ==
    /\ ExtractorRan /\ pc = "done"
    /\ Cardinality(Declarations("lang_tags")) = 1
    /\ cfg.lang_tags = <<"en", "es">>
    /\ \E i \in FencedDeclarations("lang_tags") :
          /\ BaseDoc(entry, base)[i].a = <<"en">>
          /\ \E j \in Declarations("lang_tags") : i < j

----------------------------------------------------------------------------
(* The exemption of the configuration section, as the properties see it *)

\* every string leaf of in that is not under the top-level `mmg` key has, at
\* the same place of out, its classification for lang; top is TRUE at the root
RECURSIVE LeavesClassified(_, _, _, _)
LeavesClassified(in, out, lang, top) ==
    CASE in.t = "dict" ->
            /\ out.t = "dict" /\ Len(out.v) = Len(in.v)
            /\ \A i \in 1..Len(in.v) :
                  (top /\ in.v[i][1] = "mmg")
                  \/ LeavesClassified(in.v[i][2], out.v[i][2], lang, FALSE)
      [] in.t = "list" ->
            /\ out.t = "list" /\ Len(out.v) = Len(in.v)
            /\ \A i \in 1..Len(in.v) : LeavesClassified(in.v[i], out.v[i], lang, FALSE)
      [] in.t = "str" ->
            out = StrNode(join(classify(splitlines(in.v), cfg.lang_tags)[lang]))
      [] OTHER -> TRUE

\* C13 as stated: in tree conversion only the top-level key `mmg` is exempt
\* from classification; every string leaf at any depth that is not under it is
\* classified per language, also under a nested key named `mmg`.
C13_OnlyTopLevelMmgExempt ==
    (entry = "yml" /\ pc = "done") =>
        \A lang \in Range(cfg.lang_tags) :
            LeavesClassified(base, result.val[lang], lang, TRUE)

----------------------------------------------------------------------------
(* The calls of the reserved-keyword specification: no cfg argument,       *)
(* documents and trees whose lang_tags declaration names a control keyword. *)

ReservedLines ==
    {Txt("x"), Switch("block", "en"), Switch("hash", "common"),
     LangTags("block", <<"common", "en">>), LangTags("hash", <<"en">>)}

ReservedMmg ==
    {<<<<"mmg", DictNode(<<<<"lang_tags", ListNode(<<StrNode(<<Txt("<Unknown>")>>),
                                                     StrNode(<<Txt("en")>>)>>)>>>>)>>>>,
     <<<<"mmg", DictNode(<<<<"lang_tags", StrNode(<<Txt("ignore")>>)>>>>)>>>>,
     <<<<"mmg", DictNode(<<<<"lang_tags", StrNode(<<Txt("en,es")>>)>>>>)>>>>}

ReservedTrees ==
    {DictNode(m \o <<<<"body", n>>>>) :
        m \in ReservedMmg,
        n \in {Scalar("42")}
              \cup {StrNode(t) : t \in Texts({Txt("x"), Switch("block", "en")},
                                             MaxLeafLines)}}

InitReserved ==
    Start(/\ cfgArg = NoneCfg
          /\ opts \in OptSet
          /\ \/ entry = "convert" /\ base \in Texts(ReservedLines, MaxLines)
             \/ entry = "yml" /\ base \in ReservedTrees)

SpecReserved == InitReserved /\ [][Next]_vars

\* C14 as stated: no Config produced by extract_config_from_md or
\* extract_config_from_yml, and no conversion that returns a result, has
\* `common`, `ignore` or `<Unknown>` as an entry of lang_tags, nor as a key of
\* the result.
C14_NoReservedTags ==
    /\ (Did("extract") /\ cfg # NoneCfg) =>
          Range(cfg.lang_tags) \cap RESERVED_KEYWORDS = {}
    /\ pc = "done" =>
          /\ Range(cfg.lang_tags) \cap RESERVED_KEYWORDS = {}
          /\ Range(result.keys) \cap RESERVED_KEYWORDS = {}

----------------------------------------------------------------------------
(* The leaves of a tree, one by one, as the properties see them *)

HasMarker(lines) == \E i \in 1..Len(lines) : IsSwitchLine(lines[i])

\* what a string leaf read on its own, from `<Unknown>`, leaves for lang: its
\* content lines governed, within the leaf, by lang, by `common` or by no
\* marker, in order
LeafAlone(leaf, lang) ==
    LET lines == splitlines(leaf.v)
    IN  StrNode(join(Sub(lines, {i \in 1..Len(lines) : MeantFor(lines, i, lang)})))

\* every string leaf of in, outside the sections copied under a key `mmg`,
\* is in out what it is when read on its own; one without a switch marker
\* keeps all its lines, in order
RECURSIVE LeavesIsolated(_, _, _)
LeavesIsolated(in, out, lang) ==
    CASE in.t = "dict" ->
            /\ out.t = "dict" /\ Len(out.v) = Len(in.v)
            /\ \A i \in 1..Len(in.v) :
                  in.v[i][1] # "mmg" => LeavesIsolated(in.v[i][2], out.v[i][2], lang)
      [] in.t = "list" ->
            /\ out.t = "list" /\ Len(out.v) = Len(in.v)
            /\ \A i \in 1..Len(in.v) : LeavesIsolated(in.v[i], out.v[i], lang)
      [] in.t = "str" ->
            /\ out = LeafAlone(in, lang)
            /\ ~HasMarker(splitlines(in.v)) =>
                  out.t = "str" /\ splitlines(out.v) = splitlines(in.v)
      [] OTHER -> TRUE

\* C15 (per-leaf state isolation): in tree conversion every string leaf is
\* classified from `<Unknown>`, so no switch marker of one leaf governs a line
\* of another; a string leaf without a switch marker goes, all its lines in
\* order, into the tree of every declared language, whatever markers the
\* leaves before it hold.
C15_LeafIsolation ==
    (entry = "yml" /\ pc = "done") =>
        \A lang \in Range(cfg.lang_tags) :
            LeavesIsolated(base, result.val[lang], lang)

C15_Witness ==
    /\ entry = "yml" /\ pc = "done"
    /\ cfg.lang_tags = <<"en", "es">>
    /\ LET app == Get(base, "app", Scalar(""))
           out == Get(result.val["en"], "app", Scalar(""))
       IN  /\ app.t = "list" /\ Len(app.v) = 2
           /\ app.v[1] = StrNode(<<Switch("block", "en"), Txt("A"),
                                   Switch("hash", "es"), Txt("B")>>)
           /\ app.v[2] = StrNode(<<Txt("x")>>)
           /\ out.v[1] = StrNode(<<Txt("A")>>)
           /\ out.v[2] = StrNode(<<Txt("x")>>)

====
